---- MODULE Spec2Model ----
(***************************************************************************)
(* recona-go: the paginated search aggregator (services/*.SearchAll over   *)
(* services/*.Search), the rate-limited Client (MakeRequest, SetRateLimit, *)
(* GetRateLimitStatus) and the authenticated transport                     *)
(* (internal.MakeAuthenticatedRequest).                                    *)
(***************************************************************************)
EXTENDS Integers, Sequences, FiniteSets, TLC

(***************************************************************************)
(* Part 1.  SearchAll                                                      *)
(*                                                                         *)
(* The five SearchAll methods (host, domain, certificate, CVE, AS) are the *)
(* same code up to the item type; HostService.SearchAll is the one         *)
(* transcribed.  A page of items is kept as one run [off, n]: the n items  *)
(* the backend returned for the request at offset off, in server order.    *)
(* A list of items is a sequence of runs, so appending a page to the       *)
(* accumulator is sequence concatenation.                                  *)
(***************************************************************************)

VARIABLES
    pc,        \* position of the SearchAll invocation
    offset,    \* SearchAll's local `offset`
    limit,     \* SearchAll's local `limit`
    allHosts,  \* SearchAll's accumulator `allHosts`
    inflight,  \* page requests handed to client.MakeRequest and not yet answered
    resp,      \* what Search returned for the last page request
    ret,       \* what SearchAll returned: [items, err]
    log,       \* the backend's record of the page requests and its answers
    bigPages,  \* number of pages answered with more items than requested
    sctx,      \* the ctx argument of the invocation: "live" or "done"
    prev,      \* the earlier invocation with the same query, once a second runs
    det        \* what the last GetDetails call returned

searchVars ==
    <<pc, offset, limit, allHosts, inflight, resp, ret, log, bigPages, sctx, prev, det>>

pageSize == 100
maxResults == 10000

\* Backend behaviour: the item counts a page answer may carry.
ShortPage == 50
ExtraItems == 50
\* How many answers of one invocation may carry more items than requested,
\* and where: among the first BigWindow requests, or to a request within
\* BigWindow pages of the cap.
MaxBigPages == 2
BigWindow == 2
\* The total_items value of a backend that reports more data than SearchAll
\* will ever collect (the other reported total is offset + items returned).
BigTotal == 15000

Nil == <<>>
NoError == [kind |-> "nil"]
NoResp == [kind |-> "none"]
NoRet == [kind |-> "none"]
NoPrev == [kind |-> "none"]

RECURSIVE CountTo(_, _)
CountTo(runs, i) == IF i = 0 THEN 0 ELSE runs[i].n + CountTo(runs, i - 1)

\* len() of a list of items kept as runs
Count(runs) == CountTo(runs, Len(runs))

\* The items a backend answers with: none, a short page, a full page, or
\* more than was asked for.
PageCounts(lim) == {0, lim, lim + ExtraItems} \cup {k \in {ShortPage} : k < lim}

\* Search: what one page fetch gives back to SearchAll.
\*   "reqerr"    MakeRequest returned an error (transport, API status, context)
\*   "decodeerr" DecodeJSON returned an error
\*   "null"      the body was JSON null: result stays a nil pointer, err is nil
\*   "items"     a decoded response with n items and a reported total
SearchOutcomes(req) ==
    {[kind |-> "reqerr", n |-> 0, total |-> 0],
     [kind |-> "decodeerr", n |-> 0, total |-> 0],
     [kind |-> "null", n |-> 0, total |-> 0]}
    \cup UNION {{[kind |-> "items", n |-> k, total |-> t] :
                    t \in {req.offset + k, BigTotal}} : k \in PageCounts(req.limit)}

\* The body of a response that MakeRequest returned without error: open,
\* not yet read, not yet closed.  `closed` counts the calls of Body.Close.
NoStream == [open |-> FALSE, closed |-> 0, read |-> FALSE]
ResponseBody == [open |-> TRUE, closed |-> 0, read |-> FALSE]

\* A close written at the end of the method: skipped by the early return
\* of a decode error.
CloseAtEnd(b, decodeFailed) ==
    IF decodeFailed THEN [b EXCEPT !.read = TRUE]
    ELSE [b EXCEPT !.read = TRUE, !.closed = @ + 1]

\* The body when the service method returns: DecodeJSON has read it and the
\* deferred function has closed it, whether or not decoding failed
\* (lines 40-43 and 75-78).
DeferredClose(b, decodeFailed) == [b EXCEPT !.read = TRUE, !.closed = @ + 1]

Search(o) ==
    CASE o.kind = "reqerr" ->
            [result |-> "nil", n |-> 0, total |-> 0, body |-> NoStream,
             err |-> [kind |-> "failed to search host records", cause |-> "request"]]
      [] o.kind = "decodeerr" ->
            [result |-> "nil", n |-> 0, total |-> 0,
             body |-> DeferredClose(ResponseBody, TRUE),
             err |-> [kind |-> "failed to decode host search response", cause |-> "decode"]]
      [] o.kind = "null" ->
            [result |-> "nil", n |-> 0, total |-> 0,
             body |-> DeferredClose(ResponseBody, FALSE), err |-> NoError]
      [] OTHER ->
            [result |-> "resp", n |-> o.n, total |-> o.total,
             body |-> DeferredClose(ResponseBody, FALSE), err |-> NoError]

\* GetDetails: what one call gives back, by what MakeRequest and DecodeJSON
\* did (lines 33-54).
DetailsOutcomes == {"reqerr", "decodeerr", "null", "host"}

GetDetails(o) ==
    CASE o = "reqerr" ->
            [result |-> "nil", body |-> NoStream,
             err |-> [kind |-> "failed to get host details for ID", cause |-> "request"]]
      [] o = "decodeerr" ->
            [result |-> "nil", body |-> DeferredClose(ResponseBody, TRUE),
             err |-> [kind |-> "failed to decode host details response", cause |-> "decode"]]
      [] o = "null" ->
            [result |-> "nil", body |-> DeferredClose(ResponseBody, FALSE), err |-> NoError]
      [] OTHER ->
            [result |-> "host", body |-> DeferredClose(ResponseBody, FALSE), err |-> NoError]

BigPageAllowed(req) ==
    /\ bigPages < MaxBigPages
    /\ \/ Len(log) <= BigWindow
       \/ req.offset >= maxResults - BigWindow * pageSize

SearchInit ==
    /\ pc = "idle"
    /\ offset = 0
    /\ limit = 0
    /\ allHosts = Nil
    /\ inflight = {}
    /\ resp = NoResp
    /\ ret = NoRet
    /\ log = <<>>
    /\ bigPages = 0
    /\ sctx = "live"
    /\ prev = NoPrev
    /\ det = NoRet

\* GetDetails is called while no SearchAll runs.
GetDetailsCall ==
    /\ pc \in {"idle", "returned"}
    /\ \E o \in DetailsOutcomes : det' = GetDetails(o)
    /\ UNCHANGED <<pc, offset, limit, allHosts, inflight, resp, ret, log, bigPages,
                   sctx, prev>>

\* Locals that keep the values the earlier invocation left.
KeptLocals(off, acc, lim) == [offset |-> off, allHosts |-> acc, limit |-> lim]

\* The locals of an invocation as lines 112-114 declare them, whatever an
\* earlier invocation left.
FreshLocals(off, acc, lim) == [offset |-> 0, allHosts |-> Nil, limit |-> pageSize]

\* SearchAll is called: the locals are initialised (lines 112-114).
SearchAllCall ==
    /\ pc = "idle"
    /\ LET l == FreshLocals(offset, allHosts, limit)
       IN /\ offset' = l.offset
          /\ allHosts' = l.allHosts
          /\ limit' = l.limit
    /\ pc' = "loop"
    /\ det' = NoRet
    /\ UNCHANGED <<inflight, resp, ret, log, bigPages, sctx, prev>>

\* SearchAll is called again with the same query and a context of its own,
\* after the first invocation has returned: the locals are initialised
\* (lines 112-114).  The backend's record starts anew, the record of the
\* first invocation is kept.
SearchAllAgain ==
    /\ pc = "returned"
    /\ prev = NoPrev
    /\ LET l == FreshLocals(offset, allHosts, limit)
       IN /\ offset' = l.offset
          /\ allHosts' = l.allHosts
          /\ limit' = l.limit
    /\ prev' = [kind |-> "returned", log |-> log, ret |-> ret,
                cancelled |-> (sctx = "done")]
    /\ pc' = "loop"
    /\ det' = NoRet
    /\ resp' = NoResp
    /\ ret' = NoRet
    /\ log' = <<>>
    /\ bigPages' = 0
    /\ sctx' = "live"
    /\ UNCHANGED inflight

\* The caller cancels the context while the invocation runs.
CancelSearch ==
    /\ pc \in {"loop", "fetch"}
    /\ sctx = "live"
    /\ sctx' = "done"
    /\ UNCHANGED <<pc, offset, limit, allHosts, inflight, resp, ret, log, bigPages,
                   prev, det>>

\* A limit that is never lowered.
NextLimitKept(off, lim) == lim

\* The limit of the next page request (lines 119-122): lowered when fewer
\* than pageSize slots remain, otherwise left as it is.
NextLimit(off, lim) ==
    LET remaining == maxResults - off
    IN IF remaining < pageSize THEN remaining ELSE lim

\* The loop condition (line 117), and the same with the cap let through.
LoopCondInclusive(off) == off <= maxResults

LoopCond(off) == off < maxResults

\* The loop condition and, when it holds, the page request (lines 117-131).
IssuePage ==
    /\ pc = "loop"
    /\ LoopCond(offset)
    /\ LET req == [limit |-> NextLimit(offset, limit), offset |-> offset]
       IN /\ limit' = req.limit
          /\ inflight' = inflight \cup {req}
          /\ log' = Append(log, [limit |-> req.limit, offset |-> req.offset,
                                 kind |-> "pending", n |-> 0,
                                 dead |-> (sctx = "done")])
    /\ pc' = "fetch"
    /\ UNCHANGED <<offset, allHosts, resp, ret, bigPages, sctx, prev, det>>

\* A return that reports an empty accumulator as an error.
ReturnNotFound(acc) ==
    [kind |-> "returned", items |-> acc,
     err |-> IF acc = Nil THEN [kind |-> "no host records found"] ELSE NoError]

\* The return after the loop: allHosts, nil (line 153).
ReturnAll(acc) == [kind |-> "returned", items |-> acc, err |-> NoError]

\* The loop condition fails: return allHosts, nil (lines 117, 153).
LoopExit ==
    /\ pc = "loop"
    /\ ~LoopCond(offset)
    /\ ret' = ReturnAll(allHosts)
    /\ pc' = "returned"
    /\ UNCHANGED <<offset, limit, allHosts, inflight, resp, log, bigPages, sctx, prev, det>>

\* A page error that hands the pages collected so far back to the caller.
PageErrorPartial(off, acc, e) ==
    [kind |-> "returned", items |-> acc,
     err |-> [kind |-> "failed to search host records at offset",
              offset |-> off, cause |-> e]]

\* What SearchAll returns on a page error (lines 132-134).
PageError(off, acc, e) ==
    [kind |-> "returned", items |-> Nil,
     err |-> [kind |-> "failed to search host records at offset",
              offset |-> off, cause |-> e]]

\* A page put in front of the accumulator instead of behind it.
PrependPage(acc, off, n) == <<[off |-> off, n |-> n]>> \o acc

\* The accumulator after a page of n items (line 142).
AppendPage(acc, off, n) == acc \o <<[off |-> off, n |-> n]>>

\* An offset that never moves.
NextOffsetStuck(off, n) == off

\* An offset that moves on by the page size, whatever the page held.
NextOffsetByPageSize(off, n) == off + pageSize

\* An offset that counts pages instead of items.
NextOffsetByPage(off, n) == off + 1

\* The offset after a page of n items (line 145).
NextOffset(off, n) == off + n

\* A loop that stops on an empty page only.
LastPageNever(n, lim) == FALSE

\* Whether the loop stops after a page of n items (lines 148-150).
LastPage(n, lim) == n < lim

\* A client that admits and sends a request whose context is done.
CtxIgnored(dead, req) == SearchOutcomes(req)

\* What a page fetch can give back, by the context it was begun with: with a
\* context already done Client.MakeRequest returns the admission error at
\* once (main.go lines 142-144); a context cancelled while the fetch runs
\* may or may not fail it.
CtxOutcomes(dead, req) ==
    IF dead THEN {o \in SearchOutcomes(req) : o.kind = "reqerr"}
    ELSE SearchOutcomes(req)

\* The backend is unchanged and deterministic between the two invocations:
\* a request it answered in the first gets the same answer in the second.
SameAsBefore(o, req) ==
    IF prev = NoPrev THEN TRUE
    ELSE \A i \in 1..Len(prev.log) :
            (prev.log[i].limit = req.limit /\ prev.log[i].offset = req.offset) =>
                (o.kind = prev.log[i].kind /\ o.n = prev.log[i].n)

\* The answer to the page request arrives and the loop body runs
\* (lines 125-150, and line 153 when the loop is left by break).
HandlePage ==
    /\ pc = "fetch"
    /\ \E req \in inflight : \E o \in CtxOutcomes(log[Len(log)].dead, req) :
        LET r == Search(o) IN
        /\ \/ SameAsBefore(o, req)
           \/ sctx = "done" /\ o.kind \in {"reqerr", "decodeerr"}
        /\ (o.n > req.limit) => BigPageAllowed(req)
        /\ bigPages' = IF o.n > req.limit THEN bigPages + 1 ELSE bigPages
        /\ inflight' = inflight \ {req}
        /\ resp' = r
        /\ log' = [log EXCEPT ![Len(log)].kind = o.kind, ![Len(log)].n = o.n]
        /\ IF r.err # NoError
             THEN /\ ret' = PageError(offset, allHosts, r.err)
                  /\ pc' = "returned"
                  /\ UNCHANGED <<offset, allHosts>>
           ELSE IF r.result = "nil"
             THEN \* resp.Hosts on a nil *HostsResponse: nil pointer dereference
                  /\ ret' = [kind |-> "panic", items |-> Nil, err |-> NoError]
                  /\ pc' = "panicked"
                  /\ UNCHANGED <<offset, allHosts>>
           ELSE IF r.n = 0
             THEN /\ ret' = ReturnAll(allHosts)
                  /\ pc' = "returned"
                  /\ UNCHANGED <<offset, allHosts>>
           ELSE /\ allHosts' = AppendPage(allHosts, offset, r.n)
                /\ offset' = NextOffset(offset, r.n)
                /\ IF LastPage(r.n, limit)
                     THEN /\ ret' = ReturnAll(allHosts')
                          /\ pc' = "returned"
                     ELSE /\ pc' = "loop"
                          /\ UNCHANGED ret
    /\ UNCHANGED <<limit, sctx, prev, det>>

(***************************************************************************)
(* Part 2.  internal.MakeAuthenticatedRequest                              *)
(*                                                                         *)
(* One call is a function of its arguments and of what the network does:   *)
(*   client  "nil" | "ok"            the *http.Client argument             *)
(*   body    "nil" | "json" | "chan" nothing, a value json.Marshal takes,  *)
(*                                   a value it refuses                    *)
(*   url     "ok" | "bad"            whether http.NewRequestWithContext    *)
(*                                   accepts method and URL                *)
(*   do      "error" | "response"    what client.Do returns                *)
(*   status, text                    status code and body of the response  *)
(*   read    "ok" | "error"          whether io.ReadAll reads the body     *)
(***************************************************************************)

VARIABLES
    treq,      \* the arguments and network behaviour of the last direct call
    tres       \* what that call returned

transportVars == <<treq, tres>>

StatusCodes == {200, 204, 302, 399, 400, 401, 404, 500}
BodyTexts == {"", "validation failed"}

TransportInputs ==
    [client : {"nil", "ok"}, body : {"nil", "json", "chan"}, url : {"ok", "bad"},
     do : {"error", "response"}, status : StatusCodes, text : BodyTexts,
     read : {"ok", "error"}]

NilResponse == [kind |-> "nil"]
Response(status, text) == [kind |-> "response", status |-> status, text |-> text]

NoBody == [open |-> FALSE, closed |-> 0, read |-> FALSE]

\* A return without a response: (nil, err).
ErrorReturn(e, sent, b) ==
    [resp |-> NilResponse, err |-> e, sent |-> sent, respBody |-> b]

\* The status test of line 55, and the same with the limit off by one.
IsErrorStatusAbove(status) == status > 400

IsErrorStatus(status) == status >= 400

\* A json.Marshal whose error is dropped: the request goes out regardless.
MarshalErrorDropped(body) == FALSE

\* Whether json.Marshal(body) returns an error (lines 33-37); a nil body
\* is not marshalled at all.
MarshalFails(body) == body = "chan"

MakeAuthenticatedRequest(in) ==
    IF in.client = "nil"
      THEN ErrorReturn([kind |-> "request failed, http client is empty"], FALSE, NoBody)
    ELSE IF MarshalFails(in.body)
      THEN ErrorReturn([kind |-> "failed to marshal request body"], FALSE, NoBody)
    ELSE IF in.url = "bad"
      THEN ErrorReturn([kind |-> "failed to create request"], FALSE, NoBody)
    ELSE IF in.do = "error"
      THEN ErrorReturn([kind |-> "request failed"], TRUE, NoBody)
    ELSE IF IsErrorStatus(in.status)
      THEN IF in.read = "error"
             THEN ErrorReturn([kind |-> "API error", status |-> in.status,
                               text |-> "failed to read response body"],
                              TRUE, [open |-> TRUE, closed |-> 0, read |-> FALSE])
             ELSE ErrorReturn([kind |-> "API error", status |-> in.status,
                               text |-> in.text],
                              TRUE, [open |-> TRUE, closed |-> 0, read |-> TRUE])
    ELSE [resp |-> Response(in.status, in.text),
          err |-> NoError, sent |-> TRUE,
          respBody |-> [open |-> TRUE, closed |-> 0, read |-> FALSE]]

NoCall == [kind |-> "none"]

TransportInit ==
    /\ treq = NoCall
    /\ tres = NoCall

\* MakeAuthenticatedRequest called directly, as the package's tests do.
TransportCall ==
    \E in \in TransportInputs :
        /\ treq' = in
        /\ tres' = MakeAuthenticatedRequest(in)

(***************************************************************************)
(* Part 3.  Client: MakeRequest, SetRateLimit, GetRateLimitStatus          *)
(*                                                                         *)
(* c.rateLimiter is a rate.Limiter (golang.org/x/time/rate): a token       *)
(* bucket with the fields limit, burst, tokens, last and lastEvent behind  *)
(* one mutex.  Time is counted in ticks, TicksPerSec to the second, and    *)
(* tokens in units of 1/TicksPerSec token, so that a limit of r requests   *)
(* per second refills r units per tick.  The limiter computes its refill   *)
(* when it is next used (advance); here the same refill is applied as the  *)
(* ticks pass, which keeps `last` equal to the present.  The times         *)
(* lastEvent and timeToAct are kept relative to the present.               *)
(***************************************************************************)

VARIABLES
    rlLimit,      \* rateLimiter.limit, requests per second
    rlBurst,      \* rateLimiter.burst, tokens
    rlTokens,     \* rateLimiter.tokens, units
    rlLastEvent,  \* rateLimiter.lastEvent, ticks from now
    cpc,          \* per caller: position in MakeRequest
    ctx,          \* per caller: the context of its call in progress
    rsv,          \* per caller: the Reservation held while waiting in Wait
    out,          \* what MakeRequest returned, when the last step was its return
    opening,      \* no time has passed and nothing was set since the client was built
    granted,      \* admissions (Wait returned nil) during the opening
    spc,          \* per configurer: position in SetRateLimit / GetRateLimitStatus
    sarg,         \* per configurer: arguments of the call in progress, or values read
    sret,         \* what SetRateLimit / GetRateLimitStatus returned, likewise
    lastSet       \* the last SetRateLimit that completed undisturbed

limiterVars == <<rlLimit, rlBurst, rlTokens, rlLastEvent>>
callerVars == <<cpc, ctx, rsv, granted>>
configVars == <<spc, sarg, lastSet>>
clientVars == <<limiterVars, callerVars, opening, configVars, out, sret>>

DefaultRateLimit == 10
DefaultBurst == 2

\* Arguments tried for requestsPerSec and burstSize.
Rates == {DefaultRateLimit, 2 * DefaultRateLimit}
Bursts == {1, DefaultBurst}
RateArgs == Rates \cup {0}
BurstArgs == Bursts \cup {0}

\* Clock resolution: at every rate tried, a token takes a whole number of
\* ticks.
TicksPerSec == 2 * DefaultRateLimit
\* Goroutines calling MakeRequest, one call after another, and goroutines
\* calling SetRateLimit and GetRateLimitStatus.
NCallers == 2
NConfigurers == 1
\* Longest context deadline, and longest wait followed, in ticks.
MaxDeadline == 1
MaxWait == 2

Callers == 1..NCallers
Configurers == 1..NConfigurers

Min(a, b) == IF a < b THEN a ELSE b
Max(a, b) == IF a > b THEN a ELSE b

\* One token, in units.
Token == TicksPerSec

\* Limit.tokensFromDuration: the units a limit of r refills in d ticks (d may
\* be negative).
TokensFromDuration(r, d) == d * r

\* Limit.durationFromTokens: the ticks a limit of r needs for u units, for
\* u >= 0; a timer set for part of a tick fires at the end of that tick.
DurationFromTokens(r, u) == (u + r - 1) \div r

\* A bucket that is never capped.
AdvanceNoCap(tok, r, b, d) == tok + TokensFromDuration(r, d)

\* Limiter.advance: the tokens after d more ticks, capped at the burst.
Advance(tok, r, b, d) == Min(tok + TokensFromDuration(r, d), b * Token)

\* Limiter.Tokens(): the tokens available now.
Tokens == Advance(rlTokens, rlLimit, rlBurst, 0)

NoCtx == [kind |-> "none", done |-> FALSE, dl |-> -1]
LiveCtx == [kind |-> "ctx", done |-> FALSE, dl |-> -1]
DoneCtx == [kind |-> "ctx", done |-> TRUE, dl |-> -1]
NoRsv == [ok |-> FALSE, timeToAct |-> -1, limit |-> 0]

\* The contexts a caller may pass: one that is done already (cancelled, or
\* past its deadline), one without a deadline, one with a deadline dl ticks
\* away.  Any of them may end while the call runs; a context that never
\* does behaves as context.Background().
Contexts ==
    {DoneCtx, LiveCtx} \cup {[LiveCtx EXCEPT !.dl = d] : d \in 1..MaxDeadline}

\* The error MakeRequest returns when Wait fails (line 143).
\* An admission error that is returned after the request has gone out.
AdmissionAfterSend(cause) ==
    [resp |-> NilResponse, err |-> [kind |-> "rate limit wait cancelled", cause |-> cause],
     sends |-> 1]

\* `sends` counts the HTTP requests the call handed to client.Do.
AdmissionError(cause) ==
    [resp |-> NilResponse, err |-> [kind |-> "rate limit wait cancelled", cause |-> cause],
     sends |-> 0]

\* A reservation made without the limiter's mutex: the token count read is
\* not written back.
ReserveNLostUpdate(tok, r, b, maxFutureReserve) ==
    LET t == Advance(tok, r, b, 0) - Token
        w == IF t < 0 THEN DurationFromTokens(r, -t) ELSE 0
    IN [ok |-> (1 <= b) /\ (maxFutureReserve < 0 \/ w <= maxFutureReserve),
        tokens |-> Advance(tok, r, b, 0), wait |-> w]

\* A reservation that never has to wait.
ReserveNNoWait(tok, r, b, maxFutureReserve) ==
    [ok |-> 1 <= b, tokens |-> Advance(tok, r, b, 0) - Token, wait |-> 0]

\* A reservation that takes no token from the bucket.
ReserveNFree(tok, r, b, maxFutureReserve) ==
    [ok |-> 1 <= b, tokens |-> Advance(tok, r, b, 0), wait |-> 0]

\* Limiter.reserveN(now, 1, maxFutureReserve), for a finite positive limit:
\* the token is taken at once, and the reservation tells how long to wait
\* for it.  maxFutureReserve < 0 stands for InfDuration.
ReserveN(tok, r, b, maxFutureReserve) ==
    LET t == Advance(tok, r, b, 0) - Token
        w == IF t < 0 THEN DurationFromTokens(r, -t) ELSE 0
    IN [ok |-> (1 <= b) /\ (maxFutureReserve < 0 \/ w <= maxFutureReserve),
        tokens |-> t, wait |-> w]

\* A cancellation that gives nothing back.
CancelAtNoRestore(rv, tok, r, b, lastEvent) == [tokens |-> tok, lastEvent |-> lastEvent]

\* Reservation.CancelAt(now): the limiter's tokens and lastEvent afterwards.
\* Tokens reserved after this reservation are not given back.
CancelAt(rv, tok, r, b, lastEvent) ==
    LET restore == Token - TokensFromDuration(rv.limit, lastEvent - rv.timeToAct)
        prevEvent == rv.timeToAct - DurationFromTokens(rv.limit, Token)
    IN IF rv.timeToAct < 0 \/ restore <= 0
         THEN [tokens |-> tok, lastEvent |-> lastEvent]
         ELSE [tokens |-> Min(Advance(tok, r, b, 0) + restore, b * Token),
               lastEvent |-> IF rv.timeToAct = lastEvent /\ prevEvent >= 0
                               THEN prevEvent ELSE lastEvent]

\* NewClientWithOptions (lines 80-127): non-positive options take the
\* defaults, and the limiter starts with a full bucket.
ClientInitWith(rps, burstSize) ==
    /\ rlLimit = IF rps <= 0 THEN DefaultRateLimit ELSE rps
    /\ rlBurst = IF burstSize <= 0 THEN DefaultBurst ELSE burstSize
    /\ rlTokens = rlBurst * Token
    /\ rlLastEvent = -1
    /\ cpc = [c \in Callers |-> "idle"]
    /\ ctx = [c \in Callers |-> NoCtx]
    /\ rsv = [c \in Callers |-> NoRsv]
    /\ out = NoCall
    /\ granted = 0
    /\ opening = TRUE
    /\ spc = [s \in Configurers |-> "idle"]
    /\ sarg = [s \in Configurers |-> NoCall]
    /\ sret = NoCall
    /\ lastSet = NoCall

ClientInit == \E rps \in RateArgs, burstSize \in BurstArgs : ClientInitWith(rps, burstSize)

\* What the network may do to the request of an admitted caller: the
\* Client's httpClient is never nil, and a request whose context is done
\* gets no response; neither does one that was never built, because its
\* body cannot be marshalled or because method and URL are malformed.
ClientTransportInputs(k) ==
    {in \in [client : {"ok"}, body : {"json", "chan"}, url : {"ok", "bad"},
             do : {"error", "response"}, status : {200}, text : {""},
             read : {"ok"}] :
        /\ k.done => in.do = "error"
        /\ (in.body = "chan" \/ in.url = "bad") => in.do = "error"
        /\ in.body = "chan" => in.url = "ok"}

\* A MakeRequest that sends the request again when the first try failed.
ExchangeRetried(in) ==
    LET r == MakeAuthenticatedRequest(in)
    IN [resp |-> r.resp, err |-> r.err,
        sends |-> IF ~r.sent THEN 0 ELSE IF r.err # NoError THEN 2 ELSE 1]

\* What MakeRequest returns once admitted: the outcome of the one call of
\* the authenticated request (lines 147-148).
Exchange(in) ==
    LET r == MakeAuthenticatedRequest(in)
    IN [resp |-> r.resp, err |-> r.err, sends |-> IF r.sent THEN 1 ELSE 0]

\* MakeRequest is called (lines 139-149).  rateLimiter.Wait (line 142)
\* fails at once when the context is done or the wait would pass its
\* deadline; it returns nil at once when a token is there, and the request
\* is made; otherwise the caller sleeps on the reservation's timer.
MakeRequestCall(c) ==
    /\ cpc[c] = "idle"
    /\ \E k \in Contexts :
        LET rv == ReserveN(rlTokens, rlLimit, rlBurst, k.dl) IN
        IF k.done \/ ~rv.ok
          THEN /\ out' = AdmissionError(
                            IF k.done THEN "ctx.Err()" ELSE "would exceed context deadline")
               /\ UNCHANGED <<limiterVars, cpc, ctx, rsv, granted>>
          ELSE /\ rv.wait <= MaxWait
               /\ rlTokens' = rv.tokens
               /\ rlLastEvent' = rv.wait
               /\ UNCHANGED <<rlLimit, rlBurst>>
               /\ IF rv.wait = 0
                    THEN /\ \E in \in ClientTransportInputs(k) : out' = Exchange(in)
                         /\ granted' = IF opening THEN granted + 1 ELSE granted
                         /\ UNCHANGED <<cpc, ctx, rsv>>
                    ELSE /\ cpc' = [cpc EXCEPT ![c] = "wait"]
                         /\ ctx' = [ctx EXCEPT ![c] = LiveCtx]
                         /\ rsv' = [rsv EXCEPT ![c] =
                                [ok |-> TRUE, timeToAct |-> rv.wait, limit |-> rlLimit]]
                         /\ out' = NoCall
                         /\ UNCHANGED granted
    /\ sret' = NoCall
    /\ UNCHANGED <<opening, configVars>>

\* A Wait whose timer goes off at once.
TimerFiresEarly(c) ==
    /\ cpc[c] = "wait"
    /\ \E in \in ClientTransportInputs(ctx[c]) : out' = Exchange(in)
    /\ cpc' = [cpc EXCEPT ![c] = "idle"]
    /\ ctx' = [ctx EXCEPT ![c] = NoCtx]
    /\ rsv' = [rsv EXCEPT ![c] = NoRsv]
    /\ granted' = IF opening THEN granted + 1 ELSE granted
    /\ sret' = NoCall
    /\ UNCHANGED <<limiterVars, opening, configVars>>

\* Wait's select takes the timer branch: the caller is admitted and the
\* request is made (lines 142-148).
TimerFires(c) ==
    /\ cpc[c] = "wait"
    /\ rsv[c].timeToAct <= 0
    /\ \E in \in ClientTransportInputs(ctx[c]) : out' = Exchange(in)
    /\ cpc' = [cpc EXCEPT ![c] = "idle"]
    /\ ctx' = [ctx EXCEPT ![c] = NoCtx]
    /\ rsv' = [rsv EXCEPT ![c] = NoRsv]
    /\ granted' = IF opening THEN granted + 1 ELSE granted
    /\ sret' = NoCall
    /\ UNCHANGED <<limiterVars, opening, configVars>>

\* Wait's select takes the ctx.Done() branch: the reservation is cancelled
\* and MakeRequest returns the admission error (lines 142-144).
WaitCancelled(c) ==
    /\ cpc[c] = "wait"
    /\ ctx[c].done
    /\ LET after == CancelAt(rsv[c], rlTokens, rlLimit, rlBurst, rlLastEvent)
       IN /\ rlTokens' = after.tokens
          /\ rlLastEvent' = after.lastEvent
    /\ out' = AdmissionError("ctx.Err()")
    /\ cpc' = [cpc EXCEPT ![c] = "idle"]
    /\ ctx' = [ctx EXCEPT ![c] = NoCtx]
    /\ rsv' = [rsv EXCEPT ![c] = NoRsv]
    /\ sret' = NoCall
    /\ UNCHANGED <<rlLimit, rlBurst, granted, opening, configVars>>

\* The context of a waiting call ends: its owner cancels it, or its
\* deadline passes.
CancelCtx(c) ==
    /\ cpc[c] = "wait"
    /\ ~ctx[c].done
    /\ ctx' = [ctx EXCEPT ![c] = DoneCtx]
    /\ out' = NoCall
    /\ sret' = NoCall
    /\ UNCHANGED <<limiterVars, cpc, rsv, granted, opening, configVars>>

\* Whether some caller still holds a reservation that CancelAt would look at.
PendingAfterTick ==
    \E c \in Callers : cpc[c] = "wait" /\ rsv[c].timeToAct - 1 >= 0

\* One tick passes: the bucket refills and the timers come closer.  Times
\* in the past are kept only as far as the code can tell them apart.
Tick ==
    /\ rlTokens' = Advance(rlTokens, rlLimit, rlBurst, 1)
    /\ rlLastEvent' = IF rlLastEvent - 1 < 0 /\ ~PendingAfterTick
                        THEN -1 ELSE rlLastEvent - 1
    /\ rsv' = [c \in Callers |->
                 IF rsv[c].ok
                   THEN [rsv[c] EXCEPT !.timeToAct = Max(@ - 1, -1)]
                   ELSE rsv[c]]
    /\ opening' = FALSE
    /\ granted' = 0
    /\ out' = NoCall
    /\ sret' = NoCall
    /\ UNCHANGED <<rlLimit, rlBurst, cpc, ctx, configVars>>

\* A validation that forgets the burst size.
ValidateRateOnly(requestsPerSec, burstSize) ==
    IF requestsPerSec <= 0
      THEN [kind |-> "requests per second must be positive"]
      ELSE NoError

\* The validation of SetRateLimit (lines 158-163): the error it returns, or
\* NoError.
ValidateRateLimit(requestsPerSec, burstSize) ==
    IF requestsPerSec <= 0
      THEN [kind |-> "requests per second must be positive"]
    ELSE IF burstSize <= 0
      THEN [kind |-> "burst size must be positive"]
    ELSE NoError

\* What SetRateLimit returns, with the arguments it was called with.
SetReturn(requestsPerSec, burstSize, e) ==
    [kind |-> "SetRateLimit", requestsPerSec |-> requestsPerSec,
     burstSize |-> burstSize, err |-> e]

\* SetRateLimit is called: validation and, when it passes, SetLimit
\* (lines 158-166).  SetLimit refills to the present and sets the limit.
\* The call keeps, with its arguments, the limit it replaced.
SetRateLimitCall(s) ==
    /\ spc[s] = "idle"
    /\ \E requestsPerSec \in RateArgs, burstSize \in BurstArgs :
        LET e == ValidateRateLimit(requestsPerSec, burstSize) IN
        IF e # NoError
          THEN /\ sret' = SetReturn(requestsPerSec, burstSize, e)
               /\ UNCHANGED <<limiterVars, spc, sarg, lastSet, opening, granted>>
          ELSE /\ rlTokens' = Advance(rlTokens, rlLimit, rlBurst, 0)
               /\ rlLimit' = requestsPerSec
               /\ spc' = [spc EXCEPT ![s] = "setBurst"]
               /\ sarg' = [t \in Configurers |->
                            IF t = s THEN [limit |-> requestsPerSec, burst |-> burstSize,
                                           alone |-> TRUE, was |-> rlLimit]
                            ELSE IF spc[t] = "setBurst" THEN [sarg[t] EXCEPT !.alone = FALSE]
                            ELSE sarg[t]]
               /\ lastSet' = NoCall
               /\ opening' = FALSE
               /\ granted' = 0
               /\ sret' = NoCall
               /\ UNCHANGED <<rlBurst, rlLastEvent>>
    /\ out' = NoCall
    /\ UNCHANGED <<cpc, ctx, rsv>>

\* A SetRateLimit that returns nil without calling SetBurst.
SetBurstSkipped(s) ==
    /\ spc[s] = "setBurst"
    /\ spc' = [spc EXCEPT ![s] = "idle"]
    /\ sarg' = [t \in Configurers |->
                 IF t = s THEN NoCall
                 ELSE IF spc[t] = "setBurst" THEN [sarg[t] EXCEPT !.alone = FALSE]
                 ELSE sarg[t]]
    /\ sret' = SetReturn(sarg[s].limit, sarg[s].burst, NoError)
    /\ lastSet' = IF sarg[s].alone
                    THEN [limit |-> sarg[s].limit, burst |-> sarg[s].burst]
                    ELSE NoCall
    /\ out' = NoCall
    /\ UNCHANGED <<limiterVars, callerVars, opening>>

\* SetRateLimit goes on: SetBurst, and the nil return (lines 167-169).
\* SetBurst refills to the present under the old burst and sets the new one.
SetBurst(s) ==
    /\ spc[s] = "setBurst"
    /\ rlTokens' = Advance(rlTokens, rlLimit, rlBurst, 0)
    /\ rlBurst' = sarg[s].burst
    /\ spc' = [spc EXCEPT ![s] = "idle"]
    /\ sarg' = [t \in Configurers |->
                 IF t = s THEN NoCall
                 ELSE IF spc[t] = "setBurst" THEN [sarg[t] EXCEPT !.alone = FALSE]
                 ELSE sarg[t]]
    /\ sret' = SetReturn(sarg[s].limit, sarg[s].burst, NoError)
    /\ lastSet' = IF sarg[s].alone
                    THEN [limit |-> sarg[s].limit, burst |-> sarg[s].burst]
                    ELSE NoCall
    /\ out' = NoCall
    /\ UNCHANGED <<rlLimit, rlLastEvent, callerVars, opening>>

\* GetRateLimitStatus is called: rateLimiter.Limit() is read (line 176).
GetRateLimitStatusCall(s) ==
    /\ spc[s] = "idle"
    /\ spc' = [spc EXCEPT ![s] = "getBurst"]
    /\ sarg' = [sarg EXCEPT ![s] = [limit |-> rlLimit, since |-> lastSet]]
    /\ out' = NoCall
    /\ sret' = NoCall
    /\ UNCHANGED <<limiterVars, callerVars, opening, lastSet>>

\* GetRateLimitStatus goes on: rateLimiter.Burst() is read and the pair
\* returned (line 176).  `after` is the undisturbed SetRateLimit that was
\* the last to write before both reads, if there is one.
GetBurst(s) ==
    /\ spc[s] = "getBurst"
    /\ sret' = [kind |-> "GetRateLimitStatus", limit |-> sarg[s].limit, burst |-> rlBurst,
                after |-> IF sarg[s].since = lastSet THEN lastSet ELSE NoCall]
    /\ spc' = [spc EXCEPT ![s] = "idle"]
    /\ sarg' = [sarg EXCEPT ![s] = NoCall]
    /\ out' = NoCall
    /\ UNCHANGED <<limiterVars, callerVars, opening, lastSet>>

(***************************************************************************)
(* Part 4.  Several clients                                                *)
(*                                                                         *)
(* Every NewClientWithOptions creates a rate limiter of its own (line 110) *)
(* and stores it in the new Client's rateLimiter field.  Here only the     *)
(* limiters are followed: their limit, burst and tokens, refilled as the   *)
(* ticks pass, as in Part 3.                                               *)
(***************************************************************************)

VARIABLES
    lims,      \* by limiter: [limit, burst, tokens]
    idle       \* by limiter: the tokens available when it was last used, and
               \* the ticks that have passed since

fleetVars == <<lims, idle>>

NClients == 2
\* The longest idle time measured in one piece; a longer one is measured in
\* pieces.
MaxIdle == 3

Clients == 1..NClients

\* One limiter of the package, used by every client.
PackageLimiter(k) == 1

\* The limiter client k uses: the one created for it (lines 110, 117).
RateLimiterOf(k) == k

\* rate.NewLimiter(rate.Limit(rps), burstSize): a full bucket (line 110).
NewLimiter(rps, burstSize) ==
    [limit |-> rps, burst |-> burstSize, tokens |-> burstSize * Token]

\* Limiter.Tokens(): the tokens available now.
Available(l) == Advance(l.tokens, l.limit, l.burst, 0)

Used(l) == [from |-> Available(l), ticks |-> 0]

\* The clients are built by NewClient.
FleetInit ==
    /\ lims = [i \in Clients |-> NewLimiter(DefaultRateLimit, DefaultBurst)]
    /\ idle = [i \in Clients |-> Used(NewLimiter(DefaultRateLimit, DefaultBurst))]

\* MakeRequest on client k (lines 139-149): Wait takes the token, at once
\* or as a reservation the call then waits for.
AdmitOn(k) ==
    LET i == RateLimiterOf(k)
        l == lims[i]
        rv == ReserveN(l.tokens, l.limit, l.burst, -1)
    IN /\ rv.ok
       /\ rv.wait <= MaxWait
       /\ lims' = [lims EXCEPT ![i] = [l EXCEPT !.tokens = rv.tokens]]
       /\ idle' = [idle EXCEPT ![i] = Used([l EXCEPT !.tokens = rv.tokens])]

\* SetRateLimit on client k with valid arguments (lines 157-170).
SetRateLimitOn(k, requestsPerSec, burstSize) ==
    LET i == RateLimiterOf(k)
        l == lims[i]
        set == [limit |-> requestsPerSec, burst |-> burstSize, tokens |-> Available(l)]
    IN /\ ValidateRateLimit(requestsPerSec, burstSize) = NoError
       /\ lims' = [lims EXCEPT ![i] = set]
       /\ idle' = [idle EXCEPT ![i] = Used(set)]

\* A refill of one token per tick, whatever the rate.
RefillOneToken(tok, r, b) == Min(tok + Token, b * Token)

\* The tokens of a limiter one tick later.
Refill(tok, r, b) == Advance(tok, r, b, 1)

\* One tick passes: every limiter refills.
FleetTick ==
    /\ lims' = [i \in Clients |->
                  [lims[i] EXCEPT !.tokens = Refill(@, lims[i].limit, lims[i].burst)]]
    /\ idle' = [i \in Clients |->
                  IF idle[i].ticks < MaxIdle
                    THEN [idle[i] EXCEPT !.ticks = @ + 1]
                    ELSE [from |-> Available(lims[i]), ticks |-> 1]]

vars == <<searchVars, transportVars, clientVars, fleetVars>>

\* The services and the package function before any call, with a client
\* built by NewClient (default options).
Init == SearchInit /\ TransportInit /\ ClientInitWith(0, 0) /\ FleetInit

\* A service's SearchAll at work.
Next ==
    \/ SearchAllCall /\ UNCHANGED <<transportVars, clientVars, fleetVars>>
    \/ IssuePage /\ UNCHANGED <<transportVars, clientVars, fleetVars>>
    \/ LoopExit /\ UNCHANGED <<transportVars, clientVars, fleetVars>>
    \/ HandlePage /\ UNCHANGED <<transportVars, clientVars, fleetVars>>
    \/ CancelSearch /\ UNCHANGED <<transportVars, clientVars, fleetVars>>
    \/ GetDetailsCall /\ UNCHANGED <<transportVars, clientVars, fleetVars>>

Spec == Init /\ [][Next]_vars

\* SearchAll runs on: a loop step that can be taken is taken, and every page
\* request is answered or fails, at the latest when the http.Client's
\* Timeout expires (main.go line 99).
FairSpec ==
    /\ Spec
    /\ WF_vars(IssuePage /\ UNCHANGED <<transportVars, clientVars, fleetVars>>)
    /\ WF_vars(LoopExit /\ UNCHANGED <<transportVars, clientVars, fleetVars>>)
    /\ WF_vars(HandlePage /\ UNCHANGED <<transportVars, clientVars, fleetVars>>)

\* Two invocations with the same query, one after the other, neither
\* context cancelled.
NextTwice ==
    \/ SearchAllCall /\ UNCHANGED <<transportVars, clientVars, fleetVars>>
    \/ IssuePage /\ UNCHANGED <<transportVars, clientVars, fleetVars>>
    \/ LoopExit /\ UNCHANGED <<transportVars, clientVars, fleetVars>>
    \/ HandlePage /\ UNCHANGED <<transportVars, clientVars, fleetVars>>
    \/ SearchAllAgain /\ UNCHANGED <<transportVars, clientVars, fleetVars>>

SpecTwice == Init /\ [][NextTwice]_vars

\* Calls of the package function.
TransportNext == TransportCall /\ UNCHANGED <<searchVars, clientVars, fleetVars>>

SpecTransport == Init /\ [][TransportNext]_vars

\* Several clients, each admitting and being reconfigured, as time passes.
FleetNext ==
    \/ (\E k \in Clients : AdmitOn(k))
            /\ UNCHANGED <<searchVars, transportVars, clientVars>>
    \/ (\E k \in Clients, r \in Rates, b \in Bursts : SetRateLimitOn(k, r, b))
            /\ UNCHANGED <<searchVars, transportVars, clientVars>>
    \/ FleetTick /\ UNCHANGED <<searchVars, transportVars, clientVars>>

SpecFleet == Init /\ [][FleetNext]_vars

\* A client built with any options, its callers and configurers and the
\* clock.
InitClient == SearchInit /\ TransportInit /\ ClientInit /\ FleetInit

ClientNext ==
    \/ (\E c \in Callers : MakeRequestCall(c)) /\ UNCHANGED <<searchVars, transportVars, fleetVars>>
    \/ (\E c \in Callers : TimerFires(c)) /\ UNCHANGED <<searchVars, transportVars, fleetVars>>
    \/ (\E c \in Callers : WaitCancelled(c)) /\ UNCHANGED <<searchVars, transportVars, fleetVars>>
    \/ (\E c \in Callers : CancelCtx(c)) /\ UNCHANGED <<searchVars, transportVars, fleetVars>>
    \/ Tick /\ UNCHANGED <<searchVars, transportVars, fleetVars>>
    \/ (\E s \in Configurers : SetRateLimitCall(s)) /\ UNCHANGED <<searchVars, transportVars, fleetVars>>
    \/ (\E s \in Configurers : SetBurst(s)) /\ UNCHANGED <<searchVars, transportVars, fleetVars>>
    \/ (\E s \in Configurers : GetRateLimitStatusCall(s))
           /\ UNCHANGED <<searchVars, transportVars, fleetVars>>
    \/ (\E s \in Configurers : GetBurst(s)) /\ UNCHANGED <<searchVars, transportVars, fleetVars>>

SpecClient == InitClient /\ [][ClientNext]_vars

\* The same, with what the Go runtime guarantees: time passes, and a
\* goroutine whose select has a ready case runs.
FairSpecClient ==
    /\ SpecClient
    /\ WF_vars(Tick /\ UNCHANGED <<searchVars, transportVars, fleetVars>>)
    /\ \A c \in Callers :
        /\ WF_vars(TimerFires(c) /\ UNCHANGED <<searchVars, transportVars, fleetVars>>)
        /\ WF_vars(WaitCancelled(c) /\ UNCHANGED <<searchVars, transportVars, fleetVars>>)

(***************************************************************************)
(* Properties of SearchAll                                                 *)
(***************************************************************************)

\* The log entries the backend has answered with at least one item, as runs,
\* in request order: the concatenation of the page item lists.
NonEmptyAnswer(e) == e.kind = "items" /\ e.n > 0

PagesOf(l) ==
    LET answered == SelectSeq(l, NonEmptyAnswer)
    IN [i \in 1..Len(answered) |-> [off |-> answered[i].offset, n |-> answered[i].n]]

\* Every answer so far was a full page of exactly the requested limit.
AllFull ==
    \A i \in 1..Len(log) :
        log[i].kind = "pending" \/ (log[i].kind = "items" /\ log[i].n = log[i].limit)

\* C1: against a backend that always answers with a full page of exactly
\* `limit` items, SearchAll returns exactly 10,000 items without error after
\* 100 page requests, and no request it issues has offset >= 10,000.
C1_HardCapOnFullPages ==
    AllFull =>
        /\ \A i \in 1..Len(log) : log[i].offset < maxResults
        /\ pc = "returned" =>
            /\ ret.err = NoError
            /\ Count(ret.items) = maxResults
            /\ Len(log) * pageSize = maxResults

C1_Witness ==
    /\ AllFull
    /\ pc = "returned"
    /\ Len(log) = 100
    /\ log[Len(log)].offset = 9900
    /\ Count(ret.items) = 10000

\* The last page request failed: Search returned an error for it.
LastPageFailed ==
    /\ Len(log) > 0
    /\ log[Len(log)].kind \in {"reqerr", "decodeerr"}

\* C2: when a page request fails, on the first page or on a later one,
\* SearchAll returns a nil list and an error that names the offset of the
\* failed request; it does so for every failed page, and only then.
C2_PageErrorDropsItems ==
    /\ LastPageFailed =>
        /\ pc = "returned"
        /\ ret.items = Nil
        /\ ret.err # NoError
        /\ ret.err.offset = log[Len(log)].offset
    /\ (pc = "returned" /\ ret.err # NoError) => LastPageFailed

C2_Witness ==
    /\ Len(log) = 2
    /\ log[1].kind = "items" /\ log[1].n = 100
    /\ log[2].kind = "reqerr"
    /\ allHosts # Nil
    /\ pc = "returned"
    /\ ret.items = Nil
    /\ ret.err.offset = 100

\* Entry i of the log is a short page: k items with 0 < k < limit.
ShortAnswer(i) ==
    /\ log[i].kind = "items"
    /\ 0 < log[i].n
    /\ log[i].n < log[i].limit

\* C3: a page of k items with 0 < k < limit is the last request of the
\* invocation: its items are appended, SearchAll returns without error
\* everything accumulated (all answered pages, the short one last), whether
\* the reported total equals what was collected or says that more exist.
C3_ShortPageIsLast ==
    \A i \in 1..Len(log) :
        ShortAnswer(i) =>
            /\ i = Len(log)
            /\ inflight = {}
            /\ pc = "returned"
            /\ ret.err = NoError
            /\ ret.items = allHosts
            /\ ret.items = PagesOf(log)
            /\ ret.items[Len(ret.items)] = [off |-> log[i].offset, n |-> log[i].n]
            /\ resp.n = log[i].n
            /\ resp.total \in {Count(ret.items), BigTotal}

C3_Witness ==
    /\ Len(log) = 2
    /\ log[1].n = 100
    /\ log[2].n = 50
    /\ pc = "returned"
    /\ Count(ret.items) = 150
    /\ resp.total > 150

\* C4: page requests are issued one at a time (a request is outstanding only
\* as the last entry of the log, and every earlier request has been
\* answered), their offsets increase strictly, and a list returned without
\* error is the concatenation of the answered pages in request order.
C4_SerialOrderedConcat ==
    /\ Cardinality(inflight) <= 1
    /\ \A i \in 1..Len(log) : log[i].kind = "pending" => (i = Len(log) /\ pc = "fetch")
    /\ (inflight # {}) <=> (Len(log) > 0 /\ log[Len(log)].kind = "pending")
    /\ \A req \in inflight :
            req = [limit |-> log[Len(log)].limit, offset |-> log[Len(log)].offset]
    /\ \A i \in 1..(Len(log) - 1) : log[i].offset < log[i + 1].offset
    /\ (pc = "returned" /\ ret.err = NoError) => ret.items = PagesOf(log)

C4_Witness ==
    /\ pc = "returned"
    /\ ret.err = NoError
    /\ Len(log) = 3
    /\ Len(ret.items) = 3
    /\ ret.items = <<[off |-> 0, n |-> 100], [off |-> 100, n |-> 100], [off |-> 200, n |-> 50]>>

(***************************************************************************)
(* Properties of MakeAuthenticatedRequest                                  *)
(***************************************************************************)

\* The call got a response from client.Do and, for an error status, read
\* its body to the end: the HTTP exchange completed.
ExchangeCompleted ==
    /\ treq # NoCall
    /\ treq.client = "ok" /\ treq.body # "chan" /\ treq.url = "ok"
    /\ treq.do = "response"
    /\ treq.status >= 400 => treq.read = "ok"

\* C10: a completed exchange with status >= 400 returns a nil response and
\* an error carrying the status code and the body text; one with status
\* < 400 returns the response and a nil error.  Whatever the call does, it
\* returns exactly one of response and error.
C10_StatusClassification ==
    /\ tres # NoCall => ((tres.resp = NilResponse) <=> (tres.err # NoError))
    /\ ExchangeCompleted =>
        IF treq.status >= 400
          THEN /\ tres.resp = NilResponse
               /\ tres.err = [kind |-> "API error", status |-> treq.status,
                              text |-> treq.text]
          ELSE /\ tres.resp = Response(treq.status, treq.text)
               /\ tres.err = NoError

C10_Witness ==
    /\ ExchangeCompleted
    /\ treq.status = 400
    /\ treq.text = "validation failed"
    /\ tres.resp = NilResponse
    /\ tres.err.status = 400
    /\ tres.err.text = "validation failed"

(***************************************************************************)
(* Properties of the Client's rate limiting                                *)
(***************************************************************************)

\* The callers blocked in rateLimiter.Wait.
Waiting == {c \in Callers : cpc[c] = "wait"}

\* C5: from the full bucket the client is built with, before any time has
\* passed, at most `burst` calls are admitted; a call is blocked only after
\* the burst is used up, and it stays blocked on a timer that is at least
\* one token's refill time away.
C5_BurstThenBlock ==
    opening =>
        /\ granted <= rlBurst
        /\ \A c \in Waiting :
            /\ granted = rlBurst
            /\ rsv[c].timeToAct >= DurationFromTokens(rlLimit, Token)
            /\ ~ENABLED TimerFires(c)

C5_Witness ==
    /\ opening
    /\ rlBurst = DefaultBurst
    /\ granted = DefaultBurst
    /\ Waiting # {}

\* C6 as claimed: the available tokens stay between 0 and the burst size.
C6_TokenBounds == 0 <= Tokens /\ Tokens <= rlBurst * Token

\* A step that takes the available tokens down to a level below zero.
GoesBelowZero == Tokens' < 0 /\ Tokens' < Tokens

\* C6, amended: the available tokens never exceed the burst size, also when
\* SetRateLimit lowers it; they do go below zero, but only by the
\* reservation of a call that has to wait for its token, never by a call
\* admitted at once, a refill or a SetRateLimit.
C6_CappedAndOverdrawnOnlyByWaiters ==
    /\ [](Tokens <= rlBurst * Token)
    /\ [][GoesBelowZero => \E c \in Callers : cpc[c] = "idle" /\ cpc'[c] = "wait"]_vars

C6_Witness ==
    /\ Tokens < 0
    /\ Waiting # {}
    /\ lastSet # NoCall
    /\ rlBurst < DefaultBurst

\* C7 as claimed, for the call whose context ends while it is blocked: when
\* it leaves the wait it returns the admission error.
C7_EndedContextGetsAdmissionError ==
    [][\A c \in Callers :
        (cpc[c] = "wait" /\ ctx[c].done /\ cpc'[c] = "idle") =>
            out' = AdmissionError("ctx.Err()")]_vars

\* C7, amended: every admission wait ends.  It ends with the admission
\* error only for a call whose context has ended, and with admission only
\* when the call's token has come due; so a call whose context never ends
\* is admitted, and a call whose context has ended returns an error: the
\* admission error, or, when its token came due before the cancellation
\* was acted on, the error of the request made with the ended context.
C7_WaitEnds ==
    /\ \A c \in Callers : (cpc[c] = "wait") ~> (cpc[c] = "idle")
    /\ [][\A c \in Callers :
            (cpc[c] = "wait" /\ cpc'[c] = "idle") =>
                /\ out' # NoCall
                /\ IF out' = AdmissionError("ctx.Err()")
                     THEN ctx[c].done
                     ELSE /\ rsv[c].timeToAct <= 0
                          /\ out'.err.kind # "rate limit wait cancelled"
                /\ ctx[c].done => out'.err # NoError]_vars

C7_Witness ==
    /\ out = AdmissionError("ctx.Err()")
    /\ Waiting # {}
    /\ \E c \in Waiting : ctx[c].done /\ rsv[c].timeToAct <= 0

\* C8: SetRateLimit with a non-positive rate or a non-positive burst size
\* returns an error and leaves the limiter's rate and burst as they were;
\* with both arguments positive it returns nil.
C8_InvalidSetRejected ==
    [][sret'.kind = "SetRateLimit" =>
        IF sret'.requestsPerSec <= 0 \/ sret'.burstSize <= 0
          THEN /\ sret'.err # NoError
               /\ rlLimit' = rlLimit
               /\ rlBurst' = rlBurst
          ELSE sret'.err = NoError]_vars

C8_Witness ==
    /\ sret.kind = "SetRateLimit"
    /\ sret.err # NoError
    /\ sret.requestsPerSec > 0
    /\ sret.requestsPerSec # rlLimit
    /\ sret.burstSize <= 0
    /\ lastSet # NoCall

\* A step in which a MakeRequest call is admitted without waiting and
\* returns what the request gave.
AdmittedAtOnce ==
    /\ cpc' = cpc
    /\ out' # NoCall
    /\ out'.err.kind # "rate limit wait cancelled"

\* C9: once a SetRateLimit(r, b) has returned nil (and no other is under
\* way), the limiter holds rate r and burst b, GetRateLimitStatus returns
\* (r, b), and a call that begins is admitted at once exactly when a token
\* is there under burst b and otherwise waits for it at rate r.
C9_SetTakesEffect ==
    /\ [](/\ lastSet # NoCall => (rlLimit = lastSet.limit /\ rlBurst = lastSet.burst)
          /\ (sret.kind = "GetRateLimitStatus" /\ sret.after # NoCall) =>
                (sret.limit = sret.after.limit /\ sret.burst = sret.after.burst))
    /\ [][lastSet # NoCall =>
            LET have == Min(rlTokens, lastSet.burst * Token) IN
            /\ AdmittedAtOnce => have >= Token
            /\ \A c \in Callers :
                (cpc[c] = "idle" /\ cpc'[c] = "wait") =>
                    /\ have < Token
                    /\ rsv'[c].limit = lastSet.limit
                    /\ rsv'[c].timeToAct = DurationFromTokens(lastSet.limit, Token - have)]_vars

C9_Witness ==
    /\ sret.kind = "GetRateLimitStatus"
    /\ sret.after # NoCall
    /\ sret.after = lastSet
    /\ \E c \in Waiting : rsv[c].limit = lastSet.limit /\ rsv[c].timeToAct > 0

\* The errors of internal.MakeAuthenticatedRequest once the request was
\* handed to client.Do.
TransportErrors == {"request failed", "API error"}

C12_NeverMoreThanCap ==
    pc = "returned" => Count(ret.items) <= maxResults

\* The backend answered the first three page requests with pageSize items
\* each and the fourth with none.
ThreeFullThenEmpty ==
    /\ Len(log) >= 4
    /\ \A i \in 1..3 : log[i].kind = "items" /\ log[i].n = pageSize
    /\ log[4].kind = "items" /\ log[4].n = 0

\* C13: against a backend that gives pageSize items for three pages and then
\* none, SearchAll returns the 3 * pageSize items of the requests at offsets
\* 0, pageSize and 2 * pageSize, in that order and without error; the
\* request that found nothing was the fourth and last, at offset 3 * pageSize.
C13_ThreePagesThenEmpty ==
    ThreeFullThenEmpty =>
        /\ pc = "returned"
        /\ ret.err = NoError
        /\ Count(ret.items) = 3 * pageSize
        /\ ret.items = [i \in 1..3 |-> [off |-> (i - 1) * pageSize, n |-> pageSize]]
        /\ Len(log) = 4
        /\ \A i \in 1..4 : log[i].offset = (i - 1) * pageSize /\ log[i].limit = pageSize
        /\ inflight = {}

C13_Witness ==
    /\ ThreeFullThenEmpty
    /\ pc = "returned"
    /\ Count(ret.items) = 3 * pageSize

\* C14: when the first page answer carries no items, SearchAll returns a nil
\* list and a nil error, and that page request is the only one it made.
C14_EmptyFirstPage ==
    (Len(log) >= 1 /\ log[1].kind = "items" /\ log[1].n = 0) =>
        /\ pc = "returned"
        /\ ret = [kind |-> "returned", items |-> Nil, err |-> NoError]
        /\ Len(log) = 1
        /\ inflight = {}

C14_Witness ==
    /\ pc = "returned"
    /\ Len(log) = 1
    /\ log[1].kind = "items"
    /\ log[1].n = 0
    /\ ret.items = Nil

\* C15, as claimed: a SearchAll whose context was cancelled while it ran
\* returns an error and no items.
C15_CancelledReturnsError ==
    (pc = "returned" /\ sctx = "done") => (ret.err # NoError /\ ret.items = Nil)

\* C15: every page fetch begun after the context was cancelled fails, and
\* there is at most one such fetch.  A failed page fetch is the last one:
\* SearchAll has returned an error and no items, with no request open.  A
\* cancelled SearchAll that returns without error made its last page request
\* before the cancellation and returns every page it was answered with.
C15_CancelAbortsFetch ==
    /\ \A i \in 1..Len(log) :
        /\ (log[i].dead /\ log[i].kind # "pending") => log[i].kind = "reqerr"
        /\ log[i].dead => i = Len(log)
        /\ log[i].kind \in {"reqerr", "decodeerr"} =>
                /\ i = Len(log)
                /\ pc = "returned"
                /\ ret.err # NoError
                /\ ret.items = Nil
                /\ inflight = {}
    /\ (pc = "returned" /\ sctx = "done" /\ ret.err = NoError) =>
        /\ \A i \in 1..Len(log) : ~log[i].dead
        /\ ret.items = PagesOf(log)

C15_Witness ==
    /\ pc = "returned"
    /\ sctx = "done"
    /\ Len(log) >= 2
    /\ log[Len(log)].dead
    /\ allHosts # Nil
    /\ ret.items = Nil
    /\ ret.err # NoError

\* The (limit, offset) requests of a record of page requests, in order.
Requests(l) == [i \in 1..Len(l) |-> [limit |-> l[i].limit, offset |-> l[i].offset]]

\* C16: of two invocations with the same query, neither cancelled, against
\* an unchanged deterministic backend, the second starts from offset 0 with
\* an empty accumulator, issues request by request the (limit, offset)
\* sequence of the first, and returns what the first returned: the same
\* items in the same order, or the same error.
C16_Idempotence ==
    (prev # NoPrev /\ ~prev.cancelled /\ sctx = "live") =>
        /\ log = <<>> => (offset = 0 /\ allHosts = Nil)
        /\ Len(log) <= Len(prev.log)
        /\ \A i \in 1..Len(log) : Requests(log)[i] = Requests(prev.log)[i]
        /\ pc = "returned" =>
                /\ Requests(log) = Requests(prev.log)
                /\ ret = prev.ret
        /\ pc # "panicked"

C16_Witness ==
    /\ prev # NoPrev
    /\ ~prev.cancelled
    /\ sctx = "live"
    /\ pc = "returned"
    /\ Len(log) >= 3
    /\ ret.items # Nil
    /\ Len(ret.items) >= 2
    /\ ret = prev.ret

\* C19, as claimed: whenever the body cannot be serialized to JSON,
\* MakeAuthenticatedRequest returns the error 'failed to marshal request
\* body' with a nil response and sends nothing.
C19_MarshalErrorReturned ==
    (treq # NoCall /\ treq.body = "chan") =>
        /\ tres.resp = NilResponse
        /\ tres.err.kind = "failed to marshal request body"
        /\ ~tres.sent

\* C19: when the body cannot be serialized to JSON, MakeAuthenticatedRequest
\* returns a nil response and hands no HTTP request to the client, whatever
\* the URL and the network would have done; the error is 'failed to marshal
\* request body' when the client is not nil, and the nil client's error
\* otherwise.
C19_MarshalErrorSendsNothing ==
    (treq # NoCall /\ treq.body = "chan") =>
        /\ tres.resp = NilResponse
        /\ ~tres.sent
        /\ tres.respBody = NoBody
        /\ treq.client = "ok" => tres.err = [kind |-> "failed to marshal request body"]
        /\ treq.client = "nil" =>
                tres.err = [kind |-> "request failed, http client is empty"]

C19_Witness ==
    /\ treq # NoCall
    /\ treq.client = "ok"
    /\ treq.body = "chan"
    /\ treq.url = "ok"
    /\ treq.do = "response"
    /\ treq.status = 200
    /\ tres.err.kind = "failed to marshal request body"

\* What a service method did with the response body, by what it returned:
\* after a MakeRequest error there is no body; after a response the body was
\* read and closed exactly once, with or without a decode error.
ClosedOnce(r) ==
    IF r.err # NoError /\ r.err.cause = "request"
      THEN r.body = NoStream
      ELSE r.body.open /\ r.body.closed = 1

\* C20: when MakeRequest has returned a response without error, GetDetails
\* and Search, and so every page fetch of SearchAll, have closed the
\* response body exactly once when they return, whether decoding succeeded
\* or failed.
C20_BodyClosedOnce ==
    /\ resp # NoResp => ClosedOnce(resp)
    /\ det # NoRet => ClosedOnce(det)

C20_Witness ==
    /\ Len(log) >= 2
    /\ log[Len(log)].kind = "decodeerr"
    /\ resp.err.cause = "decode"
    /\ resp.body.closed = 1
    /\ det # NoRet
    /\ det.err = NoError
    /\ det.body.closed = 1

\* What client k shows of its limiter: GetRateLimitStatus and Tokens().
Observed(k) ==
    LET l == lims[RateLimiterOf(k)]
    IN [rate |-> l.limit, burst |-> l.burst, tokens |-> Available(l)]

\* C17: an admission or a SetRateLimit on one client leaves the rate, burst
\* and token count of every other client as they were, and the passing of
\* time refills each client from its own rate and burst alone.
C17_ClientsIndependent ==
    [][\A j \in Clients : \A k \in Clients \ {j} :
        /\ (AdmitOn(j) \/ \E r \in Rates, b \in Bursts : SetRateLimitOn(j, r, b)) =>
                Observed(k)' = Observed(k)
        /\ FleetTick =>
                Observed(k)' =
                    [Observed(k) EXCEPT
                        !.tokens = Min(Observed(k).burst * Token,
                                       @ + TokensFromDuration(Observed(k).rate, 1))]]_vars

C17_Witness ==
    /\ Observed(1).rate # Observed(2).rate
    /\ Observed(1).burst # Observed(2).burst
    /\ Observed(1).tokens < 0
    /\ Observed(2).tokens = Observed(2).burst * Token

\* C18: a limiter with burst C and rate R that had `from` tokens when it was
\* last used has min(C, from + t * R) tokens after t ticks without an
\* admission; a refill never takes tokens away and never lifts the count
\* above C.
C18_Refill ==
    /\ [](\A i \in Clients :
            LET l == lims[i] IN
            /\ Available(l) =
                    Min(l.burst * Token,
                        idle[i].from + TokensFromDuration(l.limit, idle[i].ticks))
            /\ Available(l) <= l.burst * Token)
    /\ [][FleetTick =>
            \A i \in Clients :
                /\ Available(lims'[i]) >= Available(lims[i])
                /\ Available(lims'[i]) <= lims[i].burst * Token]_vars

C18_Witness ==
    \E i \in Clients, j \in Clients :
        /\ idle[i].ticks >= 2
        /\ idle[i].from + TokensFromDuration(lims[i].limit, idle[i].ticks)
                > lims[i].burst * Token
        /\ Available(lims[i]) = lims[i].burst * Token
        /\ idle[j].ticks >= 2
        /\ idle[j].from < 0
        /\ Available(lims[j]) < lims[j].burst * Token

\* C21: every page request has 0 <= offset <= maxResults - 1 and
\* limit = min(pageSize, maxResults - offset), hence 1 <= limit <= pageSize,
\* whatever the backend answered before; while a page request is open the
\* local `limit` has that value too.
C21_RequestBounds ==
    /\ \A i \in 1..Len(log) :
        /\ 0 <= log[i].offset /\ log[i].offset <= maxResults - 1
        /\ log[i].limit = Min(pageSize, maxResults - log[i].offset)
        /\ 1 <= log[i].limit /\ log[i].limit <= pageSize
    /\ pc = "fetch" => limit = Min(pageSize, maxResults - offset)

C21_Witness ==
    /\ pc = "fetch"
    /\ offset > maxResults - pageSize
    /\ limit < pageSize
    /\ log[Len(log)].limit = maxResults - offset

\* C25: at the start of every loop iteration, and while its page request is
\* open, offset is the number of items accumulated; the offset named in a
\* page error is the number of items that were fetched and are not returned.
C25_OffsetCountsItems ==
    /\ pc \in {"loop", "fetch"} => offset = Count(allHosts)
    /\ (pc = "returned" /\ ret.err # NoError) =>
            (ret.err.offset = Count(allHosts) /\ ret.items = Nil)

C25_Witness ==
    /\ pc = "returned"
    /\ ret.err # NoError
    /\ ret.err.offset = pageSize + ExtraItems + pageSize
    /\ Len(allHosts) = 2

\* C26: after a page response that decoded without error, a JSON null body
\* included, SearchAll goes on or returns a list or an error; it never
\* crashes on a nil page.
C26_NoCrashOnNilPage ==
    (resp # NoResp /\ resp.err = NoError) => pc # "panicked"

\* C24: whatever the backend answers, pages larger than the limit included,
\* an invocation of SearchAll issues at most maxResults / pageSize page
\* requests, and once begun it ends: it returns, or stops in the crash on a
\* nil page.
C24_Terminates ==
    /\ [](Len(log) <= maxResults \div pageSize)
    /\ (pc \in {"loop", "fetch"}) ~> (pc \in {"returned", "panicked"})

C24_Witness ==
    /\ pc = "returned"
    /\ Len(log) = maxResults \div pageSize
    /\ bigPages > 0
    /\ Count(ret.items) > maxResults

\* C27: when MakeAuthenticatedRequest returns an error for a response with
\* status >= 400, it has closed the body of that response; a response it
\* returns has its body open and not closed, for the caller to close.
C27_ErrorBodyReleased ==
    (tres # NoCall /\ tres.respBody.open) =>
        IF tres.err # NoError THEN tres.respBody.closed = 1
        ELSE tres.respBody.closed = 0

\* C22: no token is granted twice, however the callers interleave.  From
\* the full bucket of k = burst tokens, as long as no time has passed, the
\* calls admitted and the tokens left never add up to more than k.  At any
\* time a call proceeds at once only by taking one whole token that was
\* there, and a call that finds none proceeds only after time has passed.
C22_NoTokenGrantedTwice ==
    /\ [](opening => granted * Token + Tokens <= rlBurst * Token)
    /\ [][/\ AdmittedAtOnce => (Tokens >= Token /\ Tokens' = Tokens - Token)
          /\ \A c \in Callers :
                (cpc[c] = "idle" /\ cpc'[c] = "wait") =>
                    (Tokens < Token /\ rsv'[c].timeToAct >= 1 /\ out' = NoCall)]_vars

C22_Witness ==
    /\ opening
    /\ granted = rlBurst
    /\ rlBurst = DefaultBurst
    /\ Waiting = Callers
    /\ \A c \in Callers : rsv[c].timeToAct >= 1

\* C23: every HTTP request a client sends is sent by a call that acquired a
\* token first: a call that found a whole token and took it in the same
\* step, or a waiting call whose reservation has come due; each such call
\* sends at most once, so the requests sent never outnumber the tokens
\* granted.  A call whose admission failed has sent nothing.
C23_AdmissionBeforeSend ==
    /\ []((out # NoCall /\ out.err.kind = "rate limit wait cancelled") => out.sends = 0)
    /\ [][(out' # NoCall /\ out'.sends > 0) =>
            /\ out'.sends = 1
            /\ out'.err.kind # "rate limit wait cancelled"
            /\ opening => granted' = granted + 1
            /\ \/ cpc' = cpc /\ Tokens >= Token /\ Tokens' = Tokens - Token
               \/ \E c \in Callers :
                    /\ cpc[c] = "wait" /\ cpc'[c] = "idle"
                    /\ rsv[c].ok /\ rsv[c].timeToAct <= 0]_vars

C23_Witness ==
    /\ out # NoCall
    /\ out.sends = 1
    /\ out.err = NoError
    /\ ~opening
    /\ Tokens < 0

\* A step in which the wait of caller c ends with the admission error.
WaitFails(c) ==
    /\ cpc[c] = "wait"
    /\ cpc'[c] = "idle"
    /\ out' = AdmissionError("ctx.Err()")

\* C29, as claimed: a failed admission leaves the token count as if the call
\* had not been made: untouched when the call fails at once, and with the
\* reserved token back when a waiting call is cancelled.
C29_FailedAdmissionTakesNoToken ==
    [][(out' # NoCall /\ out'.err.kind = "rate limit wait cancelled") =>
        IF cpc' = cpc THEN Tokens' = Tokens
        ELSE Tokens' = Min(rlBurst * Token, Tokens + Token)]_vars

\* C29, the part that holds: a call whose admission fails at once leaves the
\* limiter untouched.  A waiting call that is cancelled gets its whole token back
\* when its reservation is the latest made, is not yet due and was made at
\* the present rate; a cancellation never lowers the token count, but
\* otherwise the token need not come back.
C29_TokenBackForLatest ==
    [][/\ (out' # NoCall /\ out'.err.kind = "rate limit wait cancelled" /\ cpc' = cpc) =>
                UNCHANGED limiterVars
       /\ \A c \in Callers : WaitFails(c) =>
            /\ Tokens <= Tokens'
            /\ (rsv[c].timeToAct = rlLastEvent /\ rsv[c].timeToAct >= 0
                    /\ rsv[c].limit = rlLimit) =>
                        Tokens' = Min(rlBurst * Token, Tokens + Token)]_vars

\* A waiting call has been cancelled while another call waits behind it.
C29_Witness ==
    /\ out = AdmissionError("ctx.Err()")
    /\ Waiting # {}
    /\ \A c \in Waiting : rsv[c].timeToAct > DurationFromTokens(rlLimit, Token)
    /\ ~opening

\* A step in which a MakeRequest returns because the request could not be
\* built: json.Marshal refused the body or http.NewRequestWithContext
\* refused method and URL.
FailsBeforeSend ==
    /\ out' # NoCall
    /\ out'.err.kind \in {"failed to marshal request body", "failed to create request"}

\* C30, as claimed: a MakeRequest that fails before any HTTP request is sent
\* (body cannot be encoded, URL malformed) leaves the token count as it was
\* before the call.
C30_UnsentCallTakesNoToken ==
    [][(FailsBeforeSend /\ cpc' = cpc) => Tokens' = Tokens]_vars

\* C30, amended: such a call sends nothing but has passed admission first
\* and its token is spent: it took a whole token from the bucket in the
\* step of the call, or it waited and returns when its reserved token has
\* come due, and nothing is given back.
C30_UnsentCallKeepsItsToken ==
    [][FailsBeforeSend =>
        /\ out'.sends = 0
        /\ \/ cpc' = cpc /\ Tokens >= Token /\ Tokens' = Tokens - Token
           \/ \E c \in Callers :
                /\ cpc[c] = "wait" /\ cpc'[c] = "idle"
                /\ rsv[c].ok /\ rsv[c].timeToAct <= 0
                /\ UNCHANGED limiterVars]_vars

\* The last of the burst's tokens went to a call whose body could not be
\* encoded.
C30_Witness ==
    /\ out # NoCall
    /\ out.err.kind = "failed to marshal request body"
    /\ out.sends = 0
    /\ opening
    /\ granted = rlBurst
    /\ Tokens = 0

\* A step in which a MakeRequest gets its token, at once or by reservation:
\* the limiter's rate and burst were read under its lock.
TakesToken ==
    \/ AdmittedAtOnce
    \/ \E c \in Callers : cpc[c] = "idle" /\ cpc'[c] = "wait"

\* A SetRateLimit is between its SetLimit and its SetBurst, both values
\* differ from the ones in force before, and the limiter holds the new rate
\* with the old burst.
HalfSet(s) ==
    /\ spc[s] = "setBurst"
    /\ sarg[s].limit # sarg[s].was
    /\ sarg[s].burst # rlBurst
    /\ rlLimit = sarg[s].limit

\* C28, as claimed: SetRateLimit is atomic: no admission observes the new
\* rate paired with the old burst.
C28_SetRateLimitAtomic ==
    [][TakesToken => \A s \in Configurers : ~HalfSet(s)]_vars

====
